---------------------------- MODULE Spec2Model ----------------------------
(***************************************************************************)
(* Model of src/src/main.rs: the Mandelbrot pixel kernel, the three        *)
(* evaluators (naive, parallel, gpu) and main, which runs them in turn.    *)
(*                                                                         *)
(* Number representations.                                                 *)
(*  - u32 is scaled down to WordBits bits: u32 arithmetic that can         *)
(*    overflow is taken modulo U32Mod = 2^WordBits (release build) or      *)
(*    panics (debug build).                                                *)
(*  - usize is 64 bits wide in the program; every usize value of the       *)
(*    model is below 2^WordBits times a small capacity, so usize           *)
(*    arithmetic is modelled by unbounded integers.                        *)
(*  - f32: for the grid sizes and iteration bounds of the model            *)
(*    (height, width <= 7, max_iterations <= 4) the escape count computed  *)
(*    in f32 equals the one computed in exact rational arithmetic, and     *)
(*    for max_iterations < 2^16 the f32 value of i*255/max rounds to the   *)
(*    same integer as the exact quotient.  The operators below therefore   *)
(*    compute with exact fractions held as integer numerators over a       *)
(*    common denominator.                                                  *)
(***************************************************************************)
EXTENDS Integers, Sequences, FiniteSets

\* ------------------------------------------------------------- bounds
WordBits == 3
MaxHeight == 3
MaxWidth == 4
MaxIterations == 3
MaxCap == 4
NumWorkers == 2
MaxGrayIter == 16

U32Mod == 2 ^ WordBits
Workers == 1..NumWorkers

Min(a, b) == IF a < b THEN a ELSE b

VARIABLES
    h, w, max_iterations,   \* cli.height, cli.width, cli.max_iterations
    cli,                    \* the flags cli.naive, cli.parallel, cli.gpu
    pc,                     \* position of main / of the running evaluator
    panicAt,                \* "none", or the place where the process panicked
    invoked,                \* the evaluators entered so far
    out_naive, out_parallel, out_gpu,   \* the Vec<u8> each evaluator returned
    pieces,                 \* parallel: the row ranges of the fork-join tree
    computed,               \* parallel: row -> how many times it was evaluated
    y,                      \* gpu: the device buffer
    capacity,               \* gpu: max_groups * default_threads of device_info
    global_threads,         \* gpu: the chunk size
    offset,                 \* gpu: the loop variable
    launches,               \* gpu: the dispatches issued, in order
    events,                 \* gpu: "query" / "launch" / "transfer", in order
    aborted, failOffset,    \* gpu: the break was taken, and at which offset
    gpc, gi, gmax, gres     \* a call of iterations_to_grayscale on its own

mainVars == <<h, w, max_iterations, cli>>
parVars == <<pieces, computed, out_parallel>>
gpuVars == <<y, capacity, global_threads, offset, launches, events, aborted, failOffset, out_gpu>>
grayVars == <<gpc, gi, gmax, gres>>
vars == <<h, w, max_iterations, cli, pc, panicAt, invoked, out_naive, out_parallel,
          out_gpu, pieces, computed, y, capacity, global_threads,
          offset, launches, events,
          aborted, failOffset, gpc, gi, gmax, gres>>

\* ------------------------------------------------------- pixel kernel

\* `as u8` of a non-negative rounded f32: saturating.
AsU8(v) == IF v > 255 THEN 255 ELSE IF v < 0 THEN 0 ELSE v

\* f32::round of the non-negative quotient a/b: to nearest, ties away from zero.
RoundDiv(a, b) == (2 * a + b) \div (2 * b)

GrayTruncating(i, max) == IF i = max THEN 0 ELSE AsU8((i * 255) \div max)

iterations_to_grayscale(i, max) ==
    IF i = max THEN 0 ELSE AsU8(RoundDiv(i * 255, max))

\* Exact squares of numerators wider than half a 32-bit integer: Square(X) is the pair
\* <<hi, lo>> with X*X = hi * Limb^2 + lo and 0 <= lo < Limb^2.
Limb == 2 ^ 15
Abs(X) == IF X < 0 THEN 0 - X ELSE X
Square(X) ==
    LET a == Abs(X) \div Limb
        b == Abs(X) % Limb
        mid == 2 * a * b
        lo == (mid % Limb) * Limb + b * b
    IN  <<a * a + mid \div Limb + lo \div (Limb * Limb), lo % (Limb * Limb)>>

\* The loop condition x * x + y * y <= 4.0 (line 71) for x = X/E, y = Y/E:
\* X*X + Y*Y <= (2*E)*(2*E)
InsideRadius(X, Y, E) ==
    LET sx == Square(X)
        sy == Square(Y)
        lo == sx[2] + sy[2]
        hi == sx[1] + sy[1] + lo \div (Limb * Limb)
        four == Square(2 * E)
    IN  hi < four[1] \/ (hi = four[1] /\ lo % (Limb * Limb) <= four[2])

\* The while loop of mandelbro_impl (lines 71-76).  x = X/E and y = Y/E,
\* x0 = X0/D and y0 = Y0/D; the denominator E is 1 for the initial (0,0),
\* then D, D^2, D^4, ...  The x and y of the last permitted iteration are
\* never read again, so they are not computed.
RECURSIVE EscapeLoop(_, _, _, _, _, _, _, _)
EscapeLoop(X, Y, E, iteration, X0, Y0, D, max) ==
    IF iteration < max /\ InsideRadius(X, Y, E)
    THEN IF iteration + 1 = max
         THEN max
         ELSE LET E2 == IF E = 1 THEN D ELSE E * E
                  xtemp == (X * X - Y * Y) * (E2 \div (E * E)) + X0 * (E2 \div D)
                  ynext == (2 * X * Y) * (E2 \div (E * E)) + Y0 * (E2 \div D)
              IN  EscapeLoop(xtemp, ynext, E2, iteration + 1, X0, Y0, D, max)
    ELSE iteration

\* x0 = (c/w)*3.5 - 2.5 = (7c - 5w)/(2w),  y0 = (r/h)*2 - 1 = (2r - h)/h,
\* both over the common denominator D = 2*w*h.
mandelbro_impl(r, c, hh, ww, max) ==
    LET D == 2 * ww * hh
        X0 == (7 * c - 5 * ww) * hh
        Y0 == (2 * r - hh) * 2 * ww
    IN  iterations_to_grayscale(EscapeLoop(0, 0, 1, 0, X0, Y0, D, max), max)

\* ------------------------------------------------------------- naive

\* (0..w).map(|c| mandelbro_impl(r, c, h, w, max_iterations)) for one r
RowOf(r, hh, ww, max) == [c1 \in 1..ww |-> mandelbro_impl(r, c1 - 1, hh, ww, max)]

\* (0..h).flat_map(...) from row r on
RECURSIVE FlatMapRows(_, _, _, _)
FlatMapRows(r, hh, ww, max) ==
    IF r >= hh THEN <<>> ELSE RowOf(r, hh, ww, max) \o FlatMapRows(r + 1, hh, ww, max)

naive(hh, ww, max) == FlatMapRows(0, hh, ww, max)

\* The (r, c) pairs in the order naive's flat_map enumerates them.
RECURSIVE NaiveCoords(_, _, _)
NaiveCoords(r, hh, ww) ==
    IF r >= hh THEN <<>>
    ELSE [c1 \in 1..ww |-> <<r, c1 - 1>>] \o NaiveCoords(r + 1, hh, ww)

\* ----------------------------------------------------------- runalgo

\* GrayImage::from_vec(w, h, buf) is Some iff the buffer holds w*h bytes
\* (the product taken in usize); runalgo unwraps it.
FromVecOk(ww, hh, buf) == ww * hh <= Len(buf)

all == ~(cli.naive \/ cli.parallel \/ cli.gpu)

\* ---------------------------------------------------------------- Init

NoPiece == {}

Init ==
    /\ h \in 0..MaxHeight
    /\ w \in 0..MaxWidth
    /\ max_iterations \in 0..MaxIterations
    /\ cli \in [naive : BOOLEAN, parallel : BOOLEAN, gpu : BOOLEAN]
    /\ pc = "main_naive"
    /\ panicAt = "none"
    /\ invoked = {}
    /\ out_naive = <<>>
    /\ out_parallel = <<>>
    /\ out_gpu = <<>>
    /\ pieces = NoPiece
    /\ computed = <<>>
    /\ y = <<>>
    /\ capacity = 0
    /\ global_threads = 0
    /\ offset = 0
    /\ launches = <<>>
    /\ events = <<>>
    /\ aborted = FALSE
    /\ failOffset = 0
    /\ gpc = "off" /\ gi = 0 /\ gmax = 0 /\ gres = 0

\* ------------------------------------------------------- main: naive

\* main, lines 142-144, with runalgo's call of naive and its from_vec
MainNaive ==
    /\ pc = "main_naive"
    /\ IF cli.naive \/ all
       THEN /\ invoked' = invoked \cup {"naive"}
            /\ out_naive' = naive(h, w, max_iterations)
            /\ IF FromVecOk(w, h, out_naive')
               THEN pc' = "main_parallel" /\ panicAt' = panicAt
               ELSE pc' = "panicked" /\ panicAt' = "from_vec"
       ELSE /\ pc' = "main_parallel"
            /\ UNCHANGED <<invoked, out_naive, panicAt>>
    /\ UNCHANGED <<mainVars, parVars, gpuVars, grayVars>>

\* ---------------------------------------------------- main: parallel
\* rayon's (0..h).into_par_iter().flat_map_iter(..).collect(): the row range
\* is split recursively at its midpoint into pieces, each piece is folded by
\* one worker into a Vec, row after row, and the Vecs of adjacent pieces are
\* appended, left before right, until one Vec remains.

Piece(lo, hi, st, who, next, buf) ==
    [lo |-> lo, hi |-> hi, st |-> st, who |-> who, next |-> next, buf |-> buf]

Busy(t) == \E p \in pieces : p.st = "run" /\ p.who = t

\* main, lines 145-147: enter parallel, or skip it
MainParallel ==
    /\ pc = "main_parallel"
    /\ IF cli.parallel \/ all
       THEN /\ invoked' = invoked \cup {"parallel"}
            /\ pieces' = {Piece(0, h, "todo", 0, 0, <<>>)}
            /\ computed' = [r1 \in 1..h |-> 0]
            /\ pc' = "par_run"
       ELSE /\ pc' = "main_gpu"
            /\ UNCHANGED <<invoked, pieces, computed>>
    /\ UNCHANGED <<mainVars, panicAt, out_naive, out_parallel, gpuVars, grayVars>>

\* a piece of two rows or more that no worker has started is split in two
ParSplit ==
    /\ pc = "par_run"
    /\ \E p \in pieces :
        /\ p.st = "todo"
        /\ p.hi - p.lo >= 2
        /\ LET mid == p.lo + (p.hi - p.lo) \div 2
           IN  pieces' = (pieces \ {p}) \cup
                   {Piece(p.lo, mid, "todo", 0, p.lo, <<>>),
                    Piece(mid, p.hi, "todo", 0, mid, <<>>)}
    /\ UNCHANGED <<mainVars, pc, panicAt, invoked, out_naive, out_parallel,
                   computed, gpuVars, grayVars>>

\* an idle worker takes a piece
ParClaim(t) ==
    /\ pc = "par_run"
    /\ ~Busy(t)
    /\ \E p \in pieces :
        /\ p.st = "todo"
        /\ pieces' = (pieces \ {p}) \cup {Piece(p.lo, p.hi, "run", t, p.lo, <<>>)}
    /\ UNCHANGED <<mainVars, pc, panicAt, invoked, out_naive, out_parallel,
                   computed, gpuVars, grayVars>>

\* the worker evaluates the closure of line 17-19 for the next row of its piece
ParRow(t) ==
    /\ pc = "par_run"
    /\ \E p \in pieces :
        /\ p.st = "run" /\ p.who = t /\ p.next < p.hi
        /\ pieces' = (pieces \ {p}) \cup
               {Piece(p.lo, p.hi, "run", t, p.next + 1,
                      p.buf \o RowOf(p.next, h, w, max_iterations))}
        /\ computed' = [computed EXCEPT ![p.next + 1] = @ + 1]
    /\ UNCHANGED <<mainVars, pc, panicAt, invoked, out_naive, out_parallel,
                   gpuVars, grayVars>>

\* the piece's rows are exhausted: its Vec is complete
ParFinish(t) ==
    /\ pc = "par_run"
    /\ \E p \in pieces :
        /\ p.st = "run" /\ p.who = t /\ p.next = p.hi
        /\ pieces' = (pieces \ {p}) \cup {Piece(p.lo, p.hi, "done", 0, p.hi, p.buf)}
    /\ UNCHANGED <<mainVars, pc, panicAt, invoked, out_naive, out_parallel,
                   computed, gpuVars, grayVars>>

ReduceReversed(left, right) == right \o left

\* the reducer of collect: the left piece's Vec, then the right piece's
Reduce(left, right) == left \o right

ParReduce ==
    /\ pc = "par_run"
    /\ \E p, q \in pieces :
        /\ p.st = "done" /\ q.st = "done"
        /\ p.hi = q.lo /\ p.lo < p.hi /\ q.lo < q.hi
        /\ pieces' = (pieces \ {p, q}) \cup
               {Piece(p.lo, q.hi, "done", 0, q.hi, Reduce(p.buf, q.buf))}
    /\ UNCHANGED <<mainVars, pc, panicAt, invoked, out_naive, out_parallel,
                   computed, gpuVars, grayVars>>

\* collect returns the one remaining Vec; runalgo's from_vec (line 103)
ParCollect ==
    /\ pc = "par_run"
    /\ \E p \in pieces :
        /\ pieces = {p}
        /\ p.st = "done"
        /\ out_parallel' = p.buf
        /\ pieces' = NoPiece
        /\ IF FromVecOk(w, h, p.buf)
           THEN pc' = "main_gpu" /\ panicAt' = panicAt
           ELSE pc' = "panicked" /\ panicAt' = "from_vec"
    /\ UNCHANGED <<mainVars, invoked, out_naive, computed, gpuVars, grayVars>>

\* --------------------------------------------------------- main: gpu

\* Buffer::zeros(device, n)
Zeros(n) == [p \in 1..n |-> 0]

\* `offset as u32` (line 40)
OffsetAsU32(off) == off % U32Mod

KernelIdxNoOffset(offArg, item) == item % U32Mod

\* kernels::mandelbrot, line 85: idx = offset + kernel.item_id() as u32
KernelIdx(offArg, item) == (offArg + (item % U32Mod)) % U32Mod

KernelRowByHeight(idx, H, W) == idx \div H

\* kernels::mandelbrot, line 86 and 87
KernelRow(idx, H, W) == idx \div W
KernelCol(idx, H, W) == idx % W

\* kernels::mandelbrot specialised to <H, W, I>: the value work-item `item`
\* of a launch with parameter offArg stores into its element
Mandelbrot(H, W, I, offArg, item) ==
    LET idx == KernelIdx(offArg, item)
    IN  mandelbro_impl(KernelRow(idx, H, W), KernelCol(idx, H, W), H, W, I)

ChunkEndOverlapping(off, gt, len) == Min(off + gt + 1, len)

\* line 38: end = (offset + global_threads).min(y.len())
ChunkEnd(off, gt, len) == Min(off + gt, len)

NextOffsetSkipping(off, gt) == off + gt + 1

\* step_by(global_threads), line 37
NextOffset(off, gt) == off + gt

\* main, lines 155-164, and gpu's lines 26-31 when the device and the kernel
\* build; otherwise gpu is skipped
MainGpu ==
    /\ pc = "main_gpu"
    /\ IF cli.gpu \/ all
       THEN /\ invoked' = invoked \cup {"gpu"}
            /\ pc' = "gpu_alloc"
       ELSE /\ pc' = "exit"
            /\ UNCHANGED invoked
    /\ UNCHANGED <<mainVars, panicAt, out_naive, parVars, gpuVars, grayVars>>

\* lines 26-31: the device or the kernel does not build and unwrap panics
GpuBuildFail ==
    /\ pc = "main_gpu"
    /\ cli.gpu \/ all
    /\ invoked' = invoked \cup {"gpu"}
    /\ pc' = "panicked"
    /\ panicAt' = "build"
    /\ UNCHANGED <<mainVars, out_naive, parVars, gpuVars, grayVars>>

\* line 32: Buffer::zeros(device, (h * w) as usize); h * w is a u32 product,
\* which wraps in a release build
GpuAlloc ==
    /\ pc = "gpu_alloc"
    /\ y' = Zeros((h * w) % U32Mod)
    /\ pc' = "gpu_info"
    /\ UNCHANGED <<mainVars, panicAt, invoked, out_naive, parVars, capacity, global_threads,
                   offset, launches, events, aborted, failOffset, out_gpu, grayVars>>

\* line 32 in a debug build: the u32 product overflows and panics
GpuAllocOverflow ==
    /\ pc = "gpu_alloc"
    /\ h * w >= U32Mod
    /\ pc' = "panicked"
    /\ panicAt' = "overflow"
    /\ UNCHANGED <<mainVars, invoked, out_naive, parVars, gpuVars, grayVars>>

\* lines 33-36: the device reports max_groups * default_threads = k >= 1
GpuInfo ==
    /\ pc = "gpu_info"
    /\ \E k \in 1..MaxCap :
        /\ capacity' = k
        /\ global_threads' = Min(k, Len(y))
    /\ events' = Append(events, "query")
    /\ pc' = "gpu_for"
    /\ UNCHANGED <<mainVars, panicAt, invoked, out_naive, parVars, y, offset,
                   launches, aborted, failOffset, out_gpu, grayVars>>

\* line 37: (0..y.len()).step_by(global_threads) asserts a step other than 0
GpuFor ==
    /\ pc = "gpu_for"
    /\ IF global_threads = 0
       THEN pc' = "panicked" /\ panicAt' = "step_by" /\ offset' = offset
       ELSE pc' = "gpu_loop" /\ panicAt' = panicAt /\ offset' = 0
    /\ UNCHANGED <<mainVars, invoked, out_naive, parVars, y, capacity, global_threads,
                   launches, events, aborted, failOffset, out_gpu, grayVars>>

\* lines 38-40: slice_mut gives the sub-slice and the kernel is dispatched on
\* it; work-item i stores into element offset + i of the buffer
GpuDispatch ==
    /\ pc = "gpu_loop"
    /\ offset < Len(y)
    /\ LET end == ChunkEnd(offset, global_threads, Len(y))
           arg == OffsetAsU32(offset)
       IN  /\ y' = [p \in 1..Len(y) |->
                       IF offset < p /\ p <= end
                       THEN Mandelbrot(h, w, max_iterations, arg, p - 1 - offset)
                       ELSE y[p]]
           /\ launches' = Append(launches,
                  [offset |-> offset, end |-> end,
                   idx |-> [i1 \in 1..(end - offset) |-> KernelIdx(arg, i1 - 1)]])
    /\ events' = Append(events, "launch")
    /\ offset' = NextOffset(offset, global_threads)
    /\ UNCHANGED <<mainVars, pc, panicAt, invoked, out_naive, parVars,
                   capacity, global_threads, aborted, failOffset, out_gpu, grayVars>>

GpuBindFailContinue ==
    /\ pc = "gpu_loop"
    /\ offset < Len(y)
    /\ aborted' = TRUE
    /\ failOffset' = IF aborted THEN failOffset ELSE offset
    /\ offset' = offset + global_threads
    /\ UNCHANGED <<mainVars, pc, panicAt, invoked, out_naive, parVars, y, capacity,
                   global_threads, launches, events, out_gpu, grayVars>>

\* lines 41-43: slice_mut gives None and the loop is left
GpuBindFail ==
    /\ pc = "gpu_loop"
    /\ offset < Len(y)
    /\ aborted' = TRUE
    /\ failOffset' = offset
    /\ pc' = "gpu_to_vec"
    /\ UNCHANGED <<mainVars, panicAt, invoked, out_naive, parVars, y, capacity, global_threads,
                   offset, launches, events, out_gpu, grayVars>>

\* line 37: the range is exhausted
GpuLoopEnd ==
    /\ pc = "gpu_loop"
    /\ offset >= Len(y)
    /\ pc' = "gpu_to_vec"
    /\ UNCHANGED <<mainVars, panicAt, invoked, out_naive, parVars, gpuVars, grayVars>>

\* line 45: y.to_vec()
GpuToVec ==
    /\ pc = "gpu_to_vec"
    /\ out_gpu' = y
    /\ events' = Append(events, "transfer")
    /\ pc' = "gpu_ret"
    /\ UNCHANGED <<mainVars, panicAt, invoked, out_naive, parVars, y, capacity, global_threads,
                   offset, launches, aborted, failOffset, grayVars>>

\* runalgo, line 103: from_vec on the Vec gpu returned
GpuReturn ==
    /\ pc = "gpu_ret"
    /\ IF FromVecOk(w, h, out_gpu)
       THEN pc' = "exit" /\ panicAt' = panicAt
       ELSE pc' = "panicked" /\ panicAt' = "from_vec"
    /\ UNCHANGED <<mainVars, invoked, out_naive, parVars, gpuVars, grayVars>>

\* ------------------------------------- iterations_to_grayscale alone

GrayInit ==
    /\ gmax \in 0..MaxGrayIter
    /\ gi \in 0..gmax
    /\ gpc = "call"
    /\ gres = 0
    /\ h = 0 /\ w = 0 /\ max_iterations = 0
    /\ cli = [naive |-> FALSE, parallel |-> FALSE, gpu |-> FALSE]
    /\ pc = "off"
    /\ panicAt = "none"
    /\ invoked = {}
    /\ out_naive = <<>> /\ out_parallel = <<>> /\ out_gpu = <<>>
    /\ pieces = NoPiece /\ computed = <<>>
    /\ y = <<>> /\ capacity = 0 /\ global_threads = 0 /\ offset = 0
    /\ launches = <<>> /\ events = <<>>
    /\ aborted = FALSE /\ failOffset = 0

\* mandelbro_impl's call at line 77, with iteration = gi <= max_iterations = gmax
GrayCall ==
    /\ gpc = "call"
    /\ gres' = iterations_to_grayscale(gi, gmax)
    /\ gpc' = "ret"
    /\ UNCHANGED <<mainVars, pc, panicAt, invoked, out_naive, parVars, gpuVars,
                   gi, gmax>>

GraySpec == GrayInit /\ [][GrayCall]_vars

\* ---------------------------------------------------------------- Spec

Next ==
    \/ MainNaive
    \/ MainParallel
    \/ ParSplit
    \/ \E t \in Workers : ParClaim(t)
    \/ \E t \in Workers : ParRow(t)
    \/ \E t \in Workers : ParFinish(t)
    \/ ParReduce
    \/ ParCollect
    \/ MainGpu
    \/ GpuBuildFail
    \/ GpuAlloc
    \/ GpuAllocOverflow
    \/ GpuInfo
    \/ GpuFor
    \/ GpuDispatch
    \/ GpuBindFail
    \/ GpuLoopEnd
    \/ GpuToVec
    \/ GpuReturn

Spec == Init /\ [][Next]_vars

\* ------------------------------------------------------------ properties

\* gpu has returned its Vec (to_vec is the last thing it does)
GpuReturned == Len(events) > 0 /\ events[Len(events)] = "transfer"

\* parallel has returned its Vec
ParReturned == "parallel" \in invoked /\ pc # "par_run"

\* launch n's output range holds index idx
Covers(n, idx) == launches[n].offset <= idx /\ idx < launches[n].end

\* ceil(a / b) for b >= 1
CeilDiv(a, b) == (a + b - 1) \div b

\* C1, state part: the launches' ranges [offset, end) lie in the buffer and
\* are pairwise disjoint, and once gpu has returned without a failed binding
\* every index of the buffer lies in the range of exactly one launch.
C1_Ranges ==
    /\ \A n \in 1..Len(launches) :
          0 <= launches[n].offset /\ launches[n].offset < launches[n].end
          /\ launches[n].end <= Len(y)
    /\ \A m, n \in 1..Len(launches) :
          m < n => (launches[m].end <= launches[n].offset
                    \/ launches[n].end <= launches[m].offset)
    /\ (GpuReturned /\ ~aborted) =>
          \A idx \in 0..(Len(y) - 1) :
              Cardinality({n \in 1..Len(launches) : Covers(n, idx)}) = 1

\* C1, step part: an element of the device buffer changes only in the step
\* that issues a launch, and only inside that launch's [offset, end).
C1_WritesInside ==
    \A p \in 1..Len(y) :
        (Len(y') = Len(y) /\ y'[p] # y[p]) =>
            /\ Len(launches') = Len(launches) + 1
            /\ launches'[Len(launches')].offset <= p - 1
            /\ p - 1 < launches'[Len(launches')].end

\* C1: in gpu, for every total = y.len() >= 1 and capacity k >= 1, the
\* launches' output ranges are pairwise disjoint, every index in [0, total)
\* lies in exactly one of them when every sub-slice binds, and no launch
\* writes outside its own range.
C1_Partition == [](C1_Ranges) /\ [][C1_WritesInside]_vars

\* C1 witness: a completed run of several launches whose last chunk is
\* shorter than the first
C1_Witness ==
    /\ GpuReturned /\ ~aborted
    /\ Len(launches) >= 2
    /\ launches[Len(launches)].end - launches[Len(launches)].offset
          < launches[1].end - launches[1].offset

\* C2: when no binding fails, the buffer gpu returns equals the buffer naive
\* returns for the same height, width and max_iterations.
C2_GpuEqualsNaive ==
    (GpuReturned /\ ~aborted) => out_gpu = naive(h, w, max_iterations)

\* The same, for the parameters whose product h * w fits the u32.
GpuEqualsNaiveIfProductFits ==
    (GpuReturned /\ ~aborted /\ h * w < U32Mod) => out_gpu = naive(h, w, max_iterations)

\* C3: after a failed binding at failOffset, gpu issues no launch at or
\* after failOffset, does not panic, and returns a buffer of y.len() entries
\* that holds the pixel values below failOffset and 0 from failOffset on.
C3_Degraded ==
    /\ aborted => \A n \in 1..Len(launches) : launches[n].end <= failOffset
    /\ aborted => pc \in {"gpu_to_vec", "gpu_ret", "exit", "panicked"}
    /\ (aborted /\ pc = "panicked") => panicAt = "from_vec"
    /\ (aborted /\ GpuReturned) =>
          /\ Len(out_gpu) = Len(y)
          /\ \A idx \in 0..(Len(out_gpu) - 1) :
                IF idx < failOffset
                THEN out_gpu[idx + 1] = naive(h, w, max_iterations)[idx + 1]
                ELSE out_gpu[idx + 1] = 0

\* C3 witness: the binding failed in mid-buffer after a launch that stored a
\* non-zero pixel, and gpu has returned
C3_Witness ==
    /\ aborted /\ GpuReturned
    /\ 0 < failOffset /\ failOffset + 1 < Len(y)
    /\ \E idx \in 0..(failOffset - 1) : out_gpu[idx + 1] # 0

\* C4: parallel returns the byte sequence naive returns, whatever the
\* interleaving of the workers, and every row (hence every output position)
\* is evaluated by one worker, once.
C4_ParallelEqualsNaive ==
    /\ \A r1 \in 1..Len(computed) : computed[r1] <= 1
    /\ \A p \in pieces : p.st = "done" => \A r \in p.lo..(p.hi - 1) : computed[r + 1] = 1
    /\ ParReturned =>
          /\ out_parallel = naive(h, w, max_iterations)
          /\ \A r1 \in 1..h : computed[r1] = 1

\* C4 witness: parallel has returned an image of three rows that differ
C4_Witness ==
    /\ ParReturned
    /\ h >= 3 /\ w >= 2
    /\ \E p, q \in 1..Len(out_parallel) :
          q = p + w /\ out_parallel[p] # out_parallel[q]

\* C4 witness of the interleaving: two workers are inside different pieces
C4_TwoWorkersRunning ==
    \E p, q \in pieces :
        /\ p.st = "run" /\ q.st = "run" /\ p.who # q.who
        /\ q.lo < p.lo /\ p.next > p.lo /\ q.next = q.lo

\* C5: every backend returns exactly height*width entries (the integer
\* product), the entry at row*width+col being the pixel (row, col).
C5_Length ==
    /\ "naive" \in invoked => Len(out_naive) = h * w
    /\ ParReturned => Len(out_parallel) = h * w
    /\ GpuReturned => Len(out_gpu) = h * w

\* C6: with height = 0, width = 0 or max_iterations = 0 no backend is
\* invoked and no launch is issued; gpu never runs with total = 0.
C6_Rejected ==
    (h = 0 \/ w = 0 \/ max_iterations = 0) => (invoked = {} /\ launches = <<>>)

\* gpu is entered with total = 0 and its loop is built with a step of 0
GpuStepByZero == pc = "panicked" /\ panicAt = "step_by"

\* C7: iterations_to_grayscale(i, max) is 0 for i = max; for i < max it is
\* the integer nearest to i*255/max (ties upward), lies in 0..255 and does
\* not decrease with i.
C7_Grayscale ==
    gpc = "ret" =>
        /\ gi = gmax => gres = 0
        /\ gi < gmax =>
              /\ (2 * gres - 1) * gmax <= 2 * 255 * gi
              /\ 2 * 255 * gi < (2 * gres + 1) * gmax
              /\ 0 <= gres /\ gres <= 255
              /\ \A j \in 0..gi : iterations_to_grayscale(j, gmax) <= gres

\* C7 witness: a tie, 1 * 255 / 2 = 127.5, is rounded upward
C7_Witness == gpc = "ret" /\ gi = 1 /\ gmax = 2 /\ gres = 128

\* C8: for width, height >= 1 and every idx below height*width, the kernel's
\* row = idx / W and col = idx % W are inside the grid, map back to idx, and
\* are the idx-th pair of naive's row-major enumeration.
C8_IndexBijection ==
    (h >= 1 /\ w >= 1) =>
        \A idx \in 0..(h * w - 1) :
            LET r == KernelRow(idx, h, w)
                c == KernelCol(idx, h, w)
            IN  /\ r < h /\ c < w
                /\ r * w + c = idx
                /\ NaiveCoords(0, h, w)[idx + 1] = <<r, c>>

\* C8 witness: the kernel has decoded an index of the second row or later of
\* a grid that is not square, and naive has enumerated the same grid
C8_Witness ==
    /\ "naive" \in invoked
    /\ h >= 2 /\ w >= 2 /\ h # w
    /\ \E n \in 1..Len(launches) : \E i \in 1..Len(launches[n].idx) :
          KernelRow(launches[n].idx[i], h, w) >= 1

\* C9, state part: the capacity is queried once, before the first launch;
\* the chunk size is min(capacity, total); launch n starts at
\* (n-1)*chunk size and ends at min(offset + chunk size, total); the transfer
\* happens once, last; without a failed binding there are
\* ceil(total/chunk size) launches; the loop can always take a step.
C9_Sequence ==
    /\ \A i \in 1..Len(events) :
          /\ events[i] = "query" <=> i = 1
          /\ events[i] = "transfer" => (i = Len(events) /\ pc \in {"gpu_ret", "exit", "panicked"})
    /\ Len(events) =
          Len(launches) + (IF pc \in {"gpu_for", "gpu_loop", "gpu_to_vec"} THEN 1
                           ELSE IF GpuReturned THEN 2
                           ELSE IF panicAt = "step_by" THEN 1 ELSE 0)
    /\ pc \in {"gpu_for", "gpu_loop", "gpu_to_vec", "gpu_ret"} =>
          global_threads = Min(capacity, Len(y))
    /\ \A n \in 1..Len(launches) :
          /\ launches[n].offset = (n - 1) * global_threads
          /\ launches[n].end = Min(launches[n].offset + global_threads, Len(y))
    /\ pc = "gpu_loop" =>
          /\ offset = Len(launches) * global_threads
          /\ ENABLED (GpuDispatch \/ GpuBindFail \/ GpuLoopEnd)
    /\ (GpuReturned /\ ~aborted) =>
          Len(launches) = CeilDiv(Len(y), global_threads)

\* C9, step part: a step of the loop raises offset or leaves the loop
C9_Progress ==
    pc = "gpu_loop" => (pc' # "gpu_loop" \/ (offset' > offset /\ offset' <= Len(y) + global_threads))

\* C9: the launch sequence of gpu and its termination
C9_LaunchSequence == [](C9_Sequence) /\ [][C9_Progress]_vars

\* C9 witness: a completed run on a device whose capacity is below the
\* total and does not divide it: the last of the launches is a short chunk
C9_Witness ==
    /\ GpuReturned /\ ~aborted
    /\ capacity < Len(y)
    /\ Len(y) % capacity # 0
    /\ Len(launches) = CeilDiv(Len(y), capacity)
    /\ launches[Len(launches)].end = Len(y)

\* C10: in every launch the index work-item i computes from the u32 offset
\* parameter is offset + i, the position of the element it writes, and is
\* below height*width.
C10_KernelIndex ==
    \A n \in 1..Len(launches) :
        /\ Len(launches[n].idx) = launches[n].end - launches[n].offset
        /\ \A i1 \in 1..Len(launches[n].idx) :
              /\ launches[n].idx[i1] = launches[n].offset + (i1 - 1)
              /\ launches[n].idx[i1] < h * w

\* C10 witness: a launch at a non-zero offset with two work-items or more,
\* for a height and width whose u32 product wrapped
C10_Witness ==
    /\ h * w >= U32Mod
    /\ \E n \in 1..Len(launches) :
          launches[n].offset > 0 /\ Len(launches[n].idx) >= 2
=============================================================================
